---------------------------- MODULE Spec2Model ----------------------------
(***************************************************************************)
(* Model of report.GenerateReport (src/report/report.go): aggregation of   *)
(* a parsed coverage profile into per-file and global summaries, path      *)
(* prefix exclusion, root stripping and sorting of the file summaries.     *)
(*                                                                         *)
(* Strings are sequences of one-character strings; Go compares and         *)
(* matches them bytewise.  float64 percentages are kept as reduced         *)
(* fractions with a NaN tag (0/0 is NaN in Go's float64 arithmetic).       *)
(***************************************************************************)
EXTENDS Integers, Sequences, FiniteSets, TLC

VARIABLES
    parseFails,   \* cover.ParseProfiles returns an error
    profiles,     \* the parsed profiles: <<[FileName, Blocks]>>
    root,         \* argument root
    exclusions,   \* argument exclusions
    sortBy,       \* argument sortBy
    order,        \* argument order
    pc,           \* position in GenerateReport: "parse", "range", "done"
    idx,          \* index of the next profile of the range loop
    total,        \* the accumulator total
    files,        \* the map files: display name -> accumulator
    fileReports,  \* makeReport's slice as appended, before sortResults
    ret,          \* what the call returned: [report, err]
    prev          \* what the call before it, with the same arguments, returned

vars == <<parseFails, profiles, root, exclusions, sortBy, order, pc, idx,
          total, files, fileReports, ret, prev>>

args == <<parseFails, profiles, root, exclusions, sortBy, order>>

---------------------------------------------------------------------------
(* Bounds of the model.                                                    *)

\* Blocks (profile lines) in one coverprofile, over all its files.
MaxBlocks == 3

---------------------------------------------------------------------------
(* Strings.                                                                *)

\* The byte value of a character, which Go's string comparison orders by.
Byte(c) ==
    CASE c = "." -> 46
      [] c = "/" -> 47
      [] c = "a" -> 97
      [] c = "b" -> 98
      [] c = "g" -> 103
      [] c = "o" -> 111
      [] c = "r" -> 114

\* Go's s < t on strings: bytewise lexicographic.
StrLess(s, t) ==
    \E i \in 1..(Len(s) + 1) :
        /\ i <= Len(t)
        /\ \A k \in 1..(i - 1) : s[k] = t[k]
        /\ \/ i = Len(s) + 1
           \/ Byte(s[i]) < Byte(t[i])

\* strings.HasPrefix(s, prefix)
HasPrefix(s, prefix) ==
    /\ Len(s) >= Len(prefix)
    /\ SubSeq(s, 1, Len(prefix)) = prefix

\* strings.Replace(s, old, "", -1) for a non-empty old: every non-overlapping
\* occurrence of old, scanning from the left, is removed.
RECURSIVE ReplaceAllWithEmpty(_, _)
ReplaceAllWithEmpty(s, old) ==
    IF Len(s) < Len(old) THEN s
    ELSE IF HasPrefix(s, old)
         THEN ReplaceAllWithEmpty(SubSeq(s, Len(old) + 1, Len(s)), old)
         ELSE <<Head(s)>> \o ReplaceAllWithEmpty(Tail(s), old)

---------------------------------------------------------------------------
(* float64 percentages.                                                    *)

RECURSIVE Gcd(_, _)
Gcd(a, b) == IF b = 0 THEN a ELSE Gcd(b, a % b)

NaN == [nan |-> TRUE, num |-> 0, den |-> 0]

\* The float64 zero value of a Summary field.
ZeroFloat == [nan |-> FALSE, num |-> 0, den |-> 1]

\* float64(covered) / float64(all) * 100.  0/0 is NaN; covered <= all
\* (AccumulatorCounters) rules out a non-zero numerator over zero.
Percent(covered, all) ==
    IF all = 0 THEN NaN
    ELSE LET g == Gcd(100 * covered, all)
         IN  [nan |-> FALSE, num |-> (100 * covered) \div g, den |-> all \div g]

\* x < y on float64: false as soon as one side is NaN.
FloatLess(x, y) ==
    /\ ~x.nan
    /\ ~y.nan
    /\ x.num * y.den < y.num * x.den

---------------------------------------------------------------------------
(* accumulator and Summary.                                                *)

NewAccumulator(name) ==
    [name |-> name, blocks |-> 0, stmts |-> 0,
     coveredBlocks |-> 0, coveredStmts |-> 0]

\* add with the statement total kept only for covered blocks.
addCoveredOnly(a, block) ==
    IF block.Count > 0
    THEN [a EXCEPT !.blocks = @ + 1,
                   !.stmts = @ + block.NumStmt,
                   !.coveredBlocks = @ + 1,
                   !.coveredStmts = @ + block.NumStmt]
    ELSE [a EXCEPT !.blocks = @ + 1]

\* accumulator.add
add(a, block) ==
    IF block.Count > 0
    THEN [a EXCEPT !.blocks = @ + 1,
                   !.stmts = @ + block.NumStmt,
                   !.coveredBlocks = @ + 1,
                   !.coveredStmts = @ + block.NumStmt]
    ELSE [a EXCEPT !.blocks = @ + 1,
                   !.stmts = @ + block.NumStmt]

\* The inner loop of GenerateReport over profile.Blocks, on one accumulator.
RECURSIVE addAll(_, _)
addAll(a, blocks) ==
    IF blocks = <<>> THEN a
    ELSE addAll(add(a, Head(blocks)), Tail(blocks))

\* accumulator.results
results(a) ==
    [Name |-> a.name,
     Blocks |-> a.blocks,
     Stmts |-> a.stmts,
     MissingBlocks |-> a.blocks - a.coveredBlocks,
     MissingStmts |-> a.stmts - a.coveredStmts,
     BlockCoverage |-> Percent(a.coveredBlocks, a.blocks),
     StmtCoverage |-> Percent(a.coveredStmts, a.stmts)]

\* Summary{} and Report{}: Go's zero values.
ZeroSummary ==
    [Name |-> <<>>, Blocks |-> 0, Stmts |-> 0, MissingBlocks |-> 0,
     MissingStmts |-> 0, BlockCoverage |-> ZeroFloat, StmtCoverage |-> ZeroFloat]

EmptyReport == [Total |-> ZeroSummary, Files |-> <<>>]

---------------------------------------------------------------------------
(* sortResults.                                                            *)

SortKeys == {"filename", "block", "stmt", "missing-blocks", "missing-stmts"}

Orders == {"asc", "desc"}

\* The closure less of sortResults for a recognized mode, on two elements.
less(mode, a, b) ==
    CASE mode = "filename" -> StrLess(a.Name, b.Name)
      [] mode = "block" -> FloatLess(a.BlockCoverage, b.BlockCoverage)
      [] mode = "stmt" -> FloatLess(b.StmtCoverage, b.StmtCoverage)
      [] mode = "missing-blocks" -> a.MissingBlocks < b.MissingBlocks
      [] mode = "missing-stmts" -> a.MissingStmts < b.MissingStmts

\* The closure handed to sort.Slice.
sliceLess(mode, reverse, a, b) ==
    IF reverse THEN ~less(mode, a, b) ELSE less(mode, a, b)

Swap(s, i, j) == [s EXCEPT ![i] = s[j], ![j] = s[i]]

\* sort.Slice on a slice of at most 12 elements is an insertion sort:
\*   for i := a + 1; i < b; i++ {
\*       for j := i; j > a && less(j, j-1); j-- { swap(j, j-1) } }
RECURSIVE insertionInner(_, _, _, _)
insertionInner(s, j, mode, reverse) ==
    IF j > 1 /\ sliceLess(mode, reverse, s[j], s[j - 1])
    THEN insertionInner(Swap(s, j, j - 1), j - 1, mode, reverse)
    ELSE s

RECURSIVE insertionSort(_, _, _, _)
insertionSort(s, i, mode, reverse) ==
    IF i > Len(s) THEN s
    ELSE insertionSort(insertionInner(s, i, mode, reverse), i + 1, mode, reverse)

\* sortResults without the default case of the switch on mode.
sortResultsNoDefault(reports, mode, ord) ==
    IF ord \notin Orders
    THEN [err |-> "order", reports |-> reports]
    ELSE IF mode \notin SortKeys
         THEN [err |-> "nil", reports |-> reports]
         ELSE [err |-> "nil",
               reports |-> insertionSort(reports, 2, mode, ord = "desc")]

\* sortResults: the error it returns ("nil" for none) and the slice afterwards.
sortResults(reports, mode, ord) ==
    IF ord \notin Orders
    THEN [err |-> "order", reports |-> reports]
    ELSE IF mode \notin SortKeys
         THEN [err |-> "column", reports |-> reports]
         ELSE [err |-> "nil",
               reports |-> insertionSort(reports, 2, mode, ord = "desc")]

---------------------------------------------------------------------------
(* GenerateReport.                                                         *)

\* fileName of the range loop.
fileNameOf(raw, rt) ==
    IF rt = <<>> THEN raw ELSE ReplaceAllWithEmpty(raw, rt \o <<"/">>)

\* skip assigned on every turn of the exclusion loop: the last one decides.
skipLastOnly(fileName, excl) ==
    /\ Len(excl) > 0
    /\ HasPrefix(fileName, excl[Len(excl)])

\* skip of the range loop.
skip(fileName, excl) ==
    \E i \in 1..Len(excl) : HasPrefix(fileName, excl[i])

\* fileCover made anew on every profile, whatever the map holds.
fileCoverAlwaysNew(m, fileName) == NewAccumulator(fileName)

\* fileCover of the range loop: the accumulator the map holds for the name,
\* or a new one (put in the map by the caller).
fileCoverOf(m, fileName) ==
    IF fileName \in DOMAIN m THEN m[fileName] ELSE NewAccumulator(fileName)

\* The orders in which range visits the keys of a map: any.
IterationOrders(m) ==
    {o \in [1..Cardinality(DOMAIN m) -> DOMAIN m] :
        \A i, j \in 1..Cardinality(DOMAIN m) : i # j => o[i] # o[j]}

\* makeReport's append loop, visiting the map in order o.
appendResults(m, o) == [i \in 1..Len(o) |-> results(m[o[i]])]

\* makeReport's return values, given the appended slice.
makeReport(tot, reports, mode, ord) ==
    LET sorted == sortResults(reports, mode, ord)
    IN  IF sorted.err # "nil"
        THEN [report |-> EmptyReport, err |-> sorted.err]
        ELSE [report |-> [Total |-> results(tot), Files |-> sorted.reports],
              err |-> "nil"]

NoCall == [report |-> EmptyReport, err |-> "none"]

TotalName == <<"T", "o", "t", "a", "l">>

---------------------------------------------------------------------------
(* Arguments of a call.                                                    *)

ProfileBlocks == [NumStmt : {0, 1}, Count : {0, 1}]

RawNames ==
    { <<"a">>, <<"a", "/", "r", "/", "b">>, <<"r", "/", "a">>,
      <<"r", "/", "r", "/", "a">> }

Roots == { <<>>, <<"r">> }

ExclusionLists ==
    { <<>>, << <<"a">> >>, << <<"r", "/", "r">>, <<"a", "/">> >> }

RECURSIVE CountBlocks(_)
CountBlocks(ps) ==
    IF ps = <<>> THEN 0 ELSE Len(Head(ps).Blocks) + CountBlocks(Tail(ps))

\* ParseProfiles returns one profile per file, sorted by FileName.
NameLists ==
    {s \in UNION {[1..n -> RawNames] : n \in 0..MaxBlocks} :
        \A i \in 1..(Len(s) - 1) : StrLess(s[i], s[i + 1])}

BlockLists(max) == UNION {[1..m -> ProfileBlocks] : m \in 1..max}

\* ParseProfiles creates a profile on its first line: none is empty.
ProfilesNamed(names) ==
    LET n == Len(names)
        all == { [i \in 1..n |-> [FileName |-> names[i], Blocks |-> bl[i]]] :
                     bl \in [1..n -> BlockLists(MaxBlocks - n + 1)] }
    IN  {ps \in all : CountBlocks(ps) <= MaxBlocks}

ProfileLists == UNION {ProfilesNamed(names) : names \in NameLists}

\* The first n raw names, in ParseProfiles' order.
FirstNames ==
    {s \in NameLists : \A r \in RawNames :
        (\E i \in 1..Len(s) : StrLess(r, s[i])) => \E i \in 1..Len(s) : s[i] = r}

\* A two-file profile: a.go with blocks of 3 and 2 statements, run once and
\* never, and b.go with one block of 5 statements, run 5 times.
AGo == <<"a", ".", "g", "o">>

BGo == <<"b", ".", "g", "o">>

TwoFiles ==
    << [FileName |-> AGo,
        Blocks |-> << [NumStmt |-> 3, Count |-> 1], [NumStmt |-> 2, Count |-> 0] >>],
       [FileName |-> BGo,
        Blocks |-> << [NumStmt |-> 5, Count |-> 5] >>] >>

\* Path handling: every list of profiles, under every root and exclusion list.
InitPaths ==
    /\ parseFails = FALSE
    /\ profiles \in ProfileLists
    /\ root \in Roots
    /\ exclusions \in ExclusionLists
    /\ sortBy \in {"filename", "bogus"}
    /\ order = "asc"

\* Sorting: every sort key and order, on the files as parsed.
InitSorting ==
    /\ parseFails = FALSE
    /\ profiles \in UNION {ProfilesNamed(names) : names \in FirstNames}
    /\ root = <<>>
    /\ exclusions = <<>>
    /\ sortBy \in SortKeys \cup {"bogus"}
    /\ order \in Orders \cup {"bogus"}

\* A coverprofile ParseProfiles rejects.
InitUnparsable ==
    /\ parseFails = TRUE
    /\ profiles = <<>>
    /\ root \in Roots
    /\ exclusions \in ExclusionLists
    /\ sortBy \in SortKeys \cup {"bogus"}
    /\ order \in Orders \cup {"bogus"}

InitTwoFiles ==
    /\ parseFails = FALSE
    /\ profiles = TwoFiles
    /\ root = <<>>
    /\ exclusions \in { <<>>, <<AGo>> }
    /\ sortBy \in SortKeys \cup {"bogus"}
    /\ order \in Orders \cup {"bogus"}

Init ==
    /\ \/ InitPaths
       \/ InitSorting
       \/ InitUnparsable
       \/ InitTwoFiles
    /\ pc = "parse"
    /\ idx = 0
    /\ total = NewAccumulator(<<>>)
    /\ files = <<>>
    /\ fileReports = <<>>
    /\ ret = NoCall
    /\ prev = NoCall

---------------------------------------------------------------------------
(* The steps of a call.                                                    *)

\* cover.ParseProfiles returns an error: GenerateReport returns Report{} and it.
ParseError ==
    /\ pc = "parse"
    /\ parseFails
    /\ pc' = "done"
    /\ ret' = [report |-> EmptyReport, err |-> "parse"]
    /\ UNCHANGED <<args, idx, total, files, fileReports, prev>>

\* The profiles are parsed: total and files are made.
Parsed ==
    /\ pc = "parse"
    /\ ~parseFails
    /\ pc' = "range"
    /\ idx' = 1
    /\ total' = NewAccumulator(TotalName)
    /\ files' = <<>>
    /\ UNCHANGED <<args, fileReports, ret, prev>>

\* The turn on an excluded profile with total.add ahead of the skip test.
SkipProfileAfterTotal ==
    /\ pc = "range"
    /\ idx <= Len(profiles)
    /\ skip(fileNameOf(profiles[idx].FileName, root), exclusions)
    /\ idx' = idx + 1
    /\ total' = addAll(total, profiles[idx].Blocks)
    /\ UNCHANGED <<args, pc, files, fileReports, ret, prev>>

\* One turn of the range loop on a profile an exclusion matches.
SkipProfile ==
    /\ pc = "range"
    /\ idx <= Len(profiles)
    /\ skip(fileNameOf(profiles[idx].FileName, root), exclusions)
    /\ idx' = idx + 1
    /\ UNCHANGED <<args, pc, total, files, fileReports, ret, prev>>

\* One turn of the range loop on a profile that is kept: its accumulator is
\* made on first sight of the name, and every block is added to both.
AddProfile ==
    /\ pc = "range"
    /\ idx <= Len(profiles)
    /\ LET profile == profiles[idx]
           fileName == fileNameOf(profile.FileName, root)
           fileCover == fileCoverOf(files, fileName)
       IN  /\ ~skip(fileName, exclusions)
           /\ total' = addAll(total, profile.Blocks)
           /\ files' = [n \in DOMAIN files \cup {fileName} |->
                            IF n = fileName
                            THEN addAll(fileCover, profile.Blocks)
                            ELSE files[n]]
    /\ idx' = idx + 1
    /\ UNCHANGED <<args, pc, fileReports, ret, prev>>

\* makeReport: the map is visited in some order, the slice sorted, the
\* Report or the error returned.
MakeReport ==
    /\ pc = "range"
    /\ idx > Len(profiles)
    /\ \E o \in IterationOrders(files) :
          /\ fileReports' = appendResults(files, o)
          /\ ret' = makeReport(total, fileReports', sortBy, order)
    /\ pc' = "done"
    /\ UNCHANGED <<args, idx, total, files, prev>>

Next ==
    \/ ParseError
    \/ Parsed
    \/ SkipProfile
    \/ AddProfile
    \/ MakeReport

Spec == Init /\ [][Next]_vars

\* A second call with the arguments of the first, which has returned.
Again ==
    /\ pc = "done"
    /\ prev = NoCall
    /\ prev' = ret
    /\ pc' = "parse"
    /\ idx' = 0
    /\ total' = NewAccumulator(<<>>)
    /\ files' = <<>>
    /\ fileReports' = <<>>
    /\ ret' = NoCall
    /\ UNCHANGED args

NextTwice ==
    \/ ParseError
    \/ Parsed
    \/ SkipProfile
    \/ AddProfile
    \/ MakeReport
    \/ Again

SpecTwice == Init /\ [][NextTwice]_vars

---------------------------------------------------------------------------
(* What the properties speak of.                                           *)

\* The call returned a Report and no error.
Returned == pc = "done" /\ ret.err = "nil"

Counts == {"Blocks", "Stmts", "MissingBlocks", "MissingStmts"}

RECURSIVE SumField(_, _)
SumField(seq, f) ==
    IF seq = <<>> THEN 0 ELSE Head(seq)[f] + SumField(Tail(seq), f)

\* s starts with p.
StartsWith(s, p) ==
    /\ Len(p) <= Len(s)
    /\ \A k \in 1..Len(p) : s[k] = p[k]

\* The display name of the k-th profile, and whether an exclusion prefixes it.
DisplayName(k) == fileNameOf(profiles[k].FileName, root)

Excluded(name) == \E i \in 1..Len(exclusions) : StartsWith(name, exclusions[i])

\* The blocks of the first k profiles that are retained under one of names.
RECURSIVE Retained(_, _)
Retained(k, names) ==
    IF k <= 0 THEN <<>>
    ELSE Retained(k - 1, names) \o
            (IF DisplayName(k) \in names /\ ~Excluded(DisplayName(k))
             THEN profiles[k].Blocks
             ELSE <<>>)

DisplayNames == {DisplayName(k) : k \in 1..Len(profiles)}

IsCovered(b) == b.Count > 0

IsMissed(b) == ~(b.Count > 0)

FileNames == {ret.report.Files[i].Name : i \in 1..Len(ret.report.Files)}

---------------------------------------------------------------------------
(* C1: in every Report returned without error, each count of Total         *)
(* (Blocks, Stmts, MissingBlocks, MissingStmts) is the sum of that count   *)
(* over Report.Files.                                                      *)
SumInvariant ==
    Returned =>
        \A f \in Counts : ret.report.Total[f] = SumField(ret.report.Files, f)

\* Two files are reported, a third profile was excluded, a statement is missing.
SumInvariantWitness ==
    /\ Returned
    /\ Len(ret.report.Files) = 2
    /\ \E k \in 1..Len(profiles) : Excluded(DisplayName(k))
    /\ ret.report.Total.Blocks = 2
    /\ ret.report.Total.MissingStmts = 1

---------------------------------------------------------------------------
(* C2: a file whose display name starts with an exclusion prefix is not in *)
(* Report.Files and none of its blocks is counted in Report.Total; the     *)
(* match is a plain prefix match; with exclusions = ["a.go"] on the        *)
(* two-file example, Files = [b.go] and Total has b.go's counts.           *)
ExclusionCorrectness ==
    Returned =>
        /\ \A k \in 1..Len(profiles) :
              Excluded(DisplayName(k)) => DisplayName(k) \notin FileNames
        /\ LET kept == Retained(Len(profiles), DisplayNames)
           IN  /\ ret.report.Total.Blocks = Len(kept)
               /\ ret.report.Total.Stmts = SumField(kept, "NumStmt")
               /\ ret.report.Total.MissingBlocks = Len(SelectSeq(kept, IsMissed))
               /\ ret.report.Total.MissingStmts =
                      SumField(SelectSeq(kept, IsMissed), "NumStmt")
        /\ (profiles = TwoFiles /\ exclusions = <<AGo>>) =>
              /\ Len(ret.report.Files) = 1
              /\ ret.report.Files[1].Name = BGo
              /\ ret.report.Total.Blocks = 1
              /\ ret.report.Total.Stmts = 5
              /\ \A f \in Counts : ret.report.Total[f] = ret.report.Files[1][f]

\* Exclusion "a" drops a/r/b, whose name extends it, and another file is kept.
ExclusionCorrectnessWitness ==
    /\ Returned
    /\ exclusions = << <<"a">> >>
    /\ \E k \in 1..Len(profiles) :
          /\ DisplayName(k) = <<"a", "/", "r", "/", "b">>
          /\ Len(profiles[k].Blocks) >= 1
    /\ Len(ret.report.Files) >= 1
    /\ ret.report.Total.Blocks >= 1

---------------------------------------------------------------------------
(* C4: when sortBy is not a recognized key or order is not asc or desc,    *)
(* the call returns an error; and whenever it returns an error (also from  *)
(* the parser) the Report it returns is the empty Report.                  *)
InvalidArgumentRejection ==
    pc = "done" =>
        /\ (sortBy \notin SortKeys \/ order \notin Orders) => ret.err # "nil"
        /\ ret.err # "nil" => ret.report = EmptyReport

\* An unknown key is rejected although two file summaries had been computed.
InvalidArgumentRejectionWitness ==
    /\ pc = "done"
    /\ sortBy = "bogus"
    /\ order = "desc"
    /\ Len(fileReports) >= 2
    /\ ret.err = "column"
    /\ ret.report.Files = <<>>

---------------------------------------------------------------------------
\* The counters an accumulator should hold after the blocks added, and the
\* Summary that should come of an accumulator.
CountersOf(a, added) ==
    /\ a.blocks = Len(added)
    /\ a.stmts = SumField(added, "NumStmt")
    /\ a.coveredBlocks = Len(SelectSeq(added, IsCovered))
    /\ a.coveredStmts = SumField(SelectSeq(added, IsCovered), "NumStmt")
    /\ 0 <= a.coveredBlocks /\ a.coveredBlocks <= a.blocks
    /\ 0 <= a.coveredStmts /\ a.coveredStmts <= a.stmts

SummaryOf(sum, a) ==
    /\ sum.Blocks = a.blocks
    /\ sum.Stmts = a.stmts
    /\ sum.MissingBlocks = a.blocks - a.coveredBlocks
    /\ sum.MissingStmts = a.stmts - a.coveredStmts
    /\ 0 <= sum.MissingBlocks /\ sum.MissingBlocks <= sum.Blocks
    /\ 0 <= sum.MissingStmts /\ sum.MissingStmts <= sum.Stmts

(* C9: an accumulator's blocks is the number of blocks added to it, stmts  *)
(* the sum of their statement counts, coveredBlocks and coveredStmts the   *)
(* same over the blocks with execution count > 0, so 0 <= covered <= all;  *)
(* and every Summary has MissingBlocks = blocks - coveredBlocks,           *)
(* MissingStmts = stmts - coveredStmts, within 0..Blocks and 0..Stmts.     *)
AccumulatorCounters ==
    /\ pc = "range" \/ (pc = "done" /\ ~parseFails) =>
          /\ CountersOf(total, Retained(idx - 1, DisplayNames))
          /\ \A n \in DOMAIN files : CountersOf(files[n], Retained(idx - 1, {n}))
    /\ Returned =>
          /\ SummaryOf(ret.report.Total, total)
          /\ \A i \in 1..Len(ret.report.Files) :
                /\ ret.report.Files[i].Name \in DOMAIN files
                /\ SummaryOf(ret.report.Files[i], files[ret.report.Files[i].Name])

\* A file's accumulator after a covered and an uncovered one-statement block.
AccumulatorCountersWitness ==
    /\ Returned
    /\ \E n \in DOMAIN files :
          /\ files[n].blocks = 2
          /\ files[n].stmts = 2
          /\ files[n].coveredBlocks = 1
          /\ files[n].coveredStmts = 1
          /\ \E i \in 1..Len(ret.report.Files) :
                /\ ret.report.Files[i].Name = n
                /\ ret.report.Files[i].MissingStmts = 1

---------------------------------------------------------------------------
(* C10: a Report returned without error holds exactly one Summary for each *)
(* distinct non-excluded display name of the parsed profiles and no other, *)
(* and the blocks of all the profiles with that display name are merged    *)
(* into it.                                                                *)
OneSummaryPerFile ==
    Returned =>
        /\ \A i, j \in 1..Len(ret.report.Files) :
              i # j => ret.report.Files[i].Name # ret.report.Files[j].Name
        /\ FileNames = {n \in DisplayNames : ~Excluded(n)}
        /\ \A i \in 1..Len(ret.report.Files) :
              LET merged == Retained(Len(profiles), {ret.report.Files[i].Name})
              IN  /\ ret.report.Files[i].Blocks = Len(merged)
                  /\ ret.report.Files[i].Stmts = SumField(merged, "NumStmt")

\* Root r maps the profiles a and r/a to the one name a; a/r/b is reported too.
OneSummaryPerFileWitness ==
    /\ Returned
    /\ root = <<"r">>
    /\ \E j, k \in 1..Len(profiles) :
          /\ j # k
          /\ DisplayName(j) = DisplayName(k)
          /\ ~Excluded(DisplayName(k))
          /\ \E i \in 1..Len(ret.report.Files) :
                /\ ret.report.Files[i].Name = DisplayName(k)
                /\ ret.report.Files[i].Blocks = 2
    /\ Len(ret.report.Files) = 2

---------------------------------------------------------------------------
(* The field a sort key names, compared as the key's documentation says.   *)
KeyLess(key, a, b) ==
    CASE key = "filename" -> StrLess(a.Name, b.Name)
      [] key = "block" -> FloatLess(a.BlockCoverage, b.BlockCoverage)
      [] key = "stmt" -> FloatLess(a.StmtCoverage, b.StmtCoverage)
      [] key = "missing-blocks" -> a.MissingBlocks < b.MissingBlocks
      [] key = "missing-stmts" -> a.MissingStmts < b.MissingStmts

NamesOf(seq) == [i \in 1..Len(seq) |-> seq[i].Name]

(* C3: with a recognized key, Files is in non-decreasing order of the      *)
(* key's field under asc and in non-increasing order under desc; key       *)
(* missing-stmts with desc on the two-file example gives [a.go, b.go].     *)
SortOrder ==
    Returned =>
        /\ \A i, j \in 1..Len(ret.report.Files) :
              i < j =>
                 /\ order = "asc" =>
                       ~KeyLess(sortBy, ret.report.Files[j], ret.report.Files[i])
                 /\ order = "desc" =>
                       ~KeyLess(sortBy, ret.report.Files[i], ret.report.Files[j])
        /\ (/\ profiles = TwoFiles
            /\ exclusions = <<>>
            /\ sortBy = "missing-stmts"
            /\ order = "desc") => NamesOf(ret.report.Files) = <<AGo, BGo>>

---------------------------------------------------------------------------
(* C5: a second call with the arguments of the first returns what the      *)
(* first returned: the same error, Total and Files in the same order.      *)
Idempotence ==
    (pc = "done" /\ prev # NoCall) => ret = prev

---------------------------------------------------------------------------
\* Where the summary of a name stands in a slice.
PositionIn(seq, name) == CHOOSE i \in 1..Len(seq) : seq[i].Name = name

(* C6: summaries with equal values of the sort key keep, after sorting,    *)
(* the relative order they had before it, under asc and under desc; and    *)
(* the comparator used for desc never puts a before b and b before a.      *)
SortStability ==
    Returned =>
        /\ \A i, j \in 1..Len(fileReports) :
              (/\ i < j
               /\ ~KeyLess(sortBy, fileReports[i], fileReports[j])
               /\ ~KeyLess(sortBy, fileReports[j], fileReports[i]))
              => PositionIn(ret.report.Files, fileReports[i].Name)
                    < PositionIn(ret.report.Files, fileReports[j].Name)
        /\ order = "desc" =>
              \A i, j \in 1..Len(fileReports) :
                 i # j => ~(/\ sliceLess(sortBy, TRUE, fileReports[i], fileReports[j])
                            /\ sliceLess(sortBy, TRUE, fileReports[j], fileReports[i]))

---------------------------------------------------------------------------
\* The raw path without root + "/" at its start, if it starts with it.
StripRoot(raw, rt) ==
    IF rt # <<>> /\ StartsWith(raw, rt \o <<"/">>)
    THEN SubSeq(raw, Len(rt) + 2, Len(raw))
    ELSE raw

(* C7: the display name of a file is its raw path without root + "/" at    *)
(* its start, when root is not empty and the path starts with it, and the  *)
(* raw path itself otherwise: an occurrence elsewhere is left in place.    *)
RootStripping ==
    pc = "range" =>
        \A n \in DOMAIN files :
            \E k \in 1..(idx - 1) : n = StripRoot(profiles[k].FileName, root)

---------------------------------------------------------------------------
\* x == y on float64, and the percentages of the returned Report.
FloatEq(x, y) ==
    /\ ~x.nan
    /\ ~y.nan
    /\ x.num * y.den = y.num * x.den

Percentages ==
    {ret.report.Total.BlockCoverage, ret.report.Total.StmtCoverage}
    \cup {ret.report.Files[i].BlockCoverage : i \in 1..Len(ret.report.Files)}
    \cup {ret.report.Files[i].StmtCoverage : i \in 1..Len(ret.report.Files)}

(* C8: every BlockCoverage and StmtCoverage of a returned Report, of Total *)
(* and of Files, is a value that compares with every other: of two of      *)
(* them one is less than the other or they are equal.                      *)
DefinedPercentages ==
    Returned =>
        \A x, y \in Percentages :
            FloatLess(x, y) \/ FloatLess(y, x) \/ FloatEq(x, y)

===========================================================================
